---- MODULE Spec2Model ----
(***************************************************************************)
(* Model of the utilities tracker (src/utilities_tracker): the Measurement *)
(* table, the Service.measurements relationship, the monthly consumption   *)
(* calculation Service.consumption_for_month and the property              *)
(* Measurement.consumption_from_previous; the routes that write the       *)
(* tables and the relationship Service <-> ReminderTemplate; class Car and *)
(* the race of src/HW_2; lists_common_elements of src/HW_1/task_3.         *)
(*                                                                         *)
(* Decimal values are counted in thousandths, the scale of the column      *)
(* Measurement.value = Numeric(12, 3): 100 stands for Decimal("0.100").    *)
(***************************************************************************)
EXTENDS Integers, Sequences, FiniteSets, TLC

VARIABLES
    measurement,        \* the rows of table 'measurement'
    pc,                 \* per invocation: "idle", "loaded", "loop", "done"
    self_measurements,  \* per invocation: the list service.measurements of its Service object
    args,               \* per invocation: the arguments of the call in progress
    ms,                 \* per invocation: the local list ms
    idx,                \* per invocation: position of the for loop in ms
    total,              \* per frame: the local total
    prev_value,         \* per frame: the local prev_value
    result,             \* per invocation: the value returned
    config,             \* app.config: the key WTF_CSRF_ENABLED
    service,            \* the rows of table 'service'
    reminder_template,  \* the rows of table 'reminder_template'
    service_reminder,   \* the rows of the association table 'service_reminder'
    reminders,          \* per service id: the collection Service.reminders in the session
    services,           \* per reminder id: the collection ReminderTemplate.services in the session
    request,            \* the request or session operation handled last
    form,               \* the local form of the view that handled it, None without one
    response,           \* the response to it
    cars,               \* HW_2: the Car objects, None before construction
    distance,           \* HW_2: the distance last passed to Car.move
    race_dist,          \* HW_2: the global race_dist
    winner,             \* HW_2: the global winner, a position in the list cars or None
    main,               \* HW_2: the position of the program
    list_1,             \* HW_1 task 3: the first argument of lists_common_elements
    list_2,             \* HW_1 task 3: the second argument
    common              \* HW_1 task 3: the list returned, None before the call

\* the variables of the consumption calculations
calcVars == <<pc, self_measurements, args, ms, idx, total, prev_value, result>>
\* the tables beside 'measurement', the session's collections and the request handled last
storeVars == <<config, service, reminder_template, service_reminder, reminders, services,
               request, form, response>>
\* the variables of HW_2/main.py
raceVars == <<cars, distance, race_dist, winner, main>>
\* the variables of HW_1/task_3/main.py
listVars == <<list_1, list_2, common>>

vars == <<measurement, calcVars, storeVars, raceVars, listVars>>

(***************************************************************************)
(* Bounds and input domains                                                *)
(***************************************************************************)
MaxRows == 3
MaxConcRows == 2
MaxServices == 2
MaxReminders == 2
MaxDistance == 9
MaxLen == 3

Invocations == {1, 2}
Services == {1, 2}

\* HW_2/main.py 58-62: the list cars holds three cars
CarIds == {1, 2, 3}

Date(y, m, d) == [year |-> y, month |-> m, day |-> d]

\* one date in February of another year, three in February 2025, one after it
Dates == {Date(2024, 2, 15), Date(2025, 2, 1), Date(2025, 2, 10),
          Date(2025, 2, 20), Date(2025, 3, 5)}
Values == {100, 200, 300}
Years == {2024, 2025}
Months == {2, 3}

\* the smaller domain of the specification of interleaved invocations
ConcDates == {Date(2024, 2, 15), Date(2025, 2, 1), Date(2025, 2, 20)}
ConcValues == {100, 200}
ConcMonths == {2}

\* the domain of the specification of the property consumption_from_previous
PrevDates == {Date(2025, 2, 1), Date(2025, 2, 10), Date(2025, 2, 20)}
PrevValues == {100, 200}

(***************************************************************************)
(* Python values                                                           *)
(***************************************************************************)
None == <<>>
Some(v) == <<v>>

\* datetime.date.__lt__
DateLT(a, b) ==
    \/ a.year < b.year
    \/ a.year = b.year /\ a.month < b.month
    \/ a.year = b.year /\ a.month = b.month /\ a.day < b.day

\* Decimal subtraction and addition, exact on thousandths
\* faulty variant: the difference cut to whole units
DecSub_truncated(a, b) == ((a - b) \div 1000) * 1000
\* faulty variant: a negative difference is clamped to 0
DecSub_clamped(a, b) == IF a < b THEN 0 ELSE a - b
DecSub(a, b) == a - b
DecAdd(a, b) == a + b

\* min of two integers
Min(a, b) == IF a <= b THEN a ELSE b

(***************************************************************************)
(* The table and the relationship Service.measurements                     *)
(***************************************************************************)
Max(S) == CHOOSE x \in S : \A y \in S : y <= x

\* the autoincremented integer primary key of a new row
NextId(rows) == IF rows = {} THEN 1 ELSE 1 + Max({r.id : r \in rows})

RECURSIVE Orderings(_)
\* every listing of a set of rows
Orderings(rows) ==
    IF rows = {} THEN {<<>>}
    ELSE UNION {{<<r>> \o t : t \in Orderings(rows \ {r})} : r \in rows}

\* ORDER BY Measurement.date DESC: rows of equal date come in any order
IsDateDesc(s) == \A i, j \in 1..Len(s) : i < j => ~DateLT(s[i].date, s[j].date)

\* the lists a load of service.measurements can produce
Relationship(rows, sid) ==
    {s \in Orderings({r \in rows : r.service_id = sid}) : IsDateDesc(s)}

(***************************************************************************)
(* Service.consumption_for_month                                           *)
(***************************************************************************)
\* sorted() inserts each element after the elements whose key is not greater (stable)
\* faulty variant: the element is put before the elements of the same date
InsertByDate_beforeties(sorted, x) ==
    LET k == Cardinality({i \in 1..Len(sorted) : DateLT(sorted[i].date, x.date)})
    IN  SubSeq(sorted, 1, k) \o <<x>> \o SubSeq(sorted, k + 1, Len(sorted))
InsertByDate(sorted, x) ==
    LET k == Cardinality({i \in 1..Len(sorted) : ~DateLT(x.date, sorted[i].date)})
    IN  SubSeq(sorted, 1, k) \o <<x>> \o SubSeq(sorted, k + 1, Len(sorted))

RECURSIVE StableSort(_)
StableSort(coll) ==
    IF coll = <<>> THEN <<>>
    ELSE InsertByDate(StableSort(SubSeq(coll, 1, Len(coll) - 1)), coll[Len(coll)])

\* ms = sorted(self.measurements, key=lambda m: m.date)
\* faulty variant: the list is used as supplied
SortedByDate_unsorted(coll) == coll
SortedByDate(coll) == StableSort(coll)

\* what sorted() leaves in its argument: the list as it was
\* faulty variant: self.measurements.sort(...) reorders the list itself
AfterSorted_inplace(coll) == StableSort(coll)
AfterSorted(coll) == coll

\* m.date.year == year and m.date.month == month
\* faulty variant: the year is not compared
InMonth_monthonly(m, year, month) == m.date.month = month
InMonth(m, year, month) == m.date.year = year /\ m.date.month = month

RECURSIVE NextReversed(_, _, _)
\* next((x for x in reversed(ms) if x.date < d), None), from position k down
NextReversed(list, d, k) ==
    IF k = 0 THEN None
    ELSE IF DateLT(list[k].date, d) THEN Some(list[k])
    ELSE NextReversed(list, d, k - 1)

RECURSIVE NextForward(_, _, _)
\* faulty variant: the list is searched from its start, not reversed
NextForward(list, d, k) ==
    IF k > Len(list) THEN None
    ELSE IF DateLT(list[k].date, d) THEN Some(list[k])
    ELSE NextForward(list, d, k + 1)

FindPrev_oldest(list, d) == NextForward(list, d, 1)
FindPrev(list, d) == NextReversed(list, d, Len(list))

\* total = Decimal("0"); prev_value = None
InitLocals == [total |-> 0, prev_value |-> None]

\* prev_value = m.value, at the end of the loop body
\* faulty variant: prev_value is not advanced
NextPrevValue_kept(loc, m) == loc.prev_value
NextPrevValue(loc, m) == Some(m.value)

\* the body of the for loop, on the locals loc = [total, prev_value]
LoopBody(loc, m, list, year, month) ==
    IF InMonth(m, year, month)
    THEN LET prev == IF loc.prev_value = None THEN FindPrev(list, m.date) ELSE None
             pv == IF loc.prev_value = None
                   THEN (IF prev # None THEN Some(prev[1].value) ELSE Some(0))
                   ELSE loc.prev_value
             tot == DecAdd(loc.total, DecSub(m.value, pv[1]))
             upd == [total |-> tot, prev_value |-> pv]
         IN  [total |-> tot, prev_value |-> NextPrevValue(upd, m)]
    ELSE loc

\* return total
\* faulty variant: None when no reading matched
ReturnValue_nonewhenempty(loc) == IF loc.prev_value = None THEN None ELSE Some(loc.total)
ReturnValue(loc) == Some(loc.total)

RECURSIVE ForLoop(_, _, _, _, _)
\* the for loop from position k on
ForLoop(loc, list, k, year, month) ==
    IF k > Len(list) THEN loc
    ELSE ForLoop(LoopBody(loc, list[k], list, year, month), list, k + 1, year, month)

\* the whole method, run alone on the list self.measurements = coll
ConsumptionForMonth(coll, year, month) ==
    LET list == SortedByDate(coll)
    IN  ReturnValue(ForLoop(InitLocals, list, 1, year, month))

(***************************************************************************)
(* Measurement.consumption_from_previous                                   *)
(***************************************************************************)
\* Measurement.query.filter(Measurement.service_id == self.service_id,
\*                          Measurement.date < self.date)
\* faulty variant: the service is not compared
PreviousFilter_anyservice(rows, self) == {r \in rows : DateLT(r.date, self.date)}
PreviousFilter(rows, self) ==
    {r \in rows : r.service_id = self.service_id /\ DateLT(r.date, self.date)}

\* .order_by(Measurement.date.desc()).first(): None without rows, else the first row,
\* which is any of the rows of the latest date
\* faulty variant: the first row in ascending order
FirstByDateDesc_oldest(rows) ==
    IF rows = {} THEN {None}
    ELSE {Some(r) : r \in {x \in rows : \A q \in rows : ~DateLT(q.date, x.date)}}
\* the query as written
FirstByDateDesc(rows) ==
    IF rows = {} THEN {None}
    ELSE {Some(r) : r \in {x \in rows : \A q \in rows : ~DateLT(x.date, q.date)}}

\* if not prev: return None; return self.value - prev.value
DifferenceFrom(self, prev) ==
    IF prev = None THEN None ELSE Some(DecSub(self.value, prev[1].value))

\* the values the property can return for row self of a table
ConsumptionFromPrevious(rows, self) ==
    {DifferenceFrom(self, prev) : prev \in FirstByDateDesc(PreviousFilter(rows, self))}

(***************************************************************************)
(* State machine                                                           *)
(***************************************************************************)
\* total and prev_value are locals: each invocation has its own
\* faulty variant: total and prev_value kept in one place shared by all invocations
LocalOf_shared(c) == 1
LocalOf(c) == c

IdleInit ==
    /\ pc = [c \in Invocations |-> "idle"]
    /\ self_measurements = [c \in Invocations |-> <<>>]
    /\ args = [c \in Invocations |-> None]
    /\ ms = [c \in Invocations |-> <<>>]
    /\ idx = [c \in Invocations |-> 0]
    /\ total = [c \in Invocations |-> 0]
    /\ prev_value = [c \in Invocations |-> None]
    /\ result = [c \in Invocations |-> None]

\* the ids that tables 'service' and 'reminder_template' give out within the bounds
ServiceIds == 1..MaxServices
ReminderIds == 1..MaxReminders

\* a name is a string, written as the sequence of its characters; the names submitted
\* for services where whitespace plays no part
Names == {<<"W">>, <<"G">>}

\* the names submitted where it does: padded on either side, with a blank inside,
\* blank, and empty
RawNames == Names \cup {<<" ", "W">>, <<"G", " ">>, <<"W", " ", "G">>, <<" ">>, <<>>}

\* str.strip(): leading and trailing whitespace is removed, inner whitespace stays
Whitespace == {" "}

RECURSIVE LStrip(_)
LStrip(s) == IF s # <<>> /\ Head(s) \in Whitespace THEN LStrip(Tail(s)) ELSE s

RECURSIVE RStrip(_)
RStrip(s) ==
    IF s # <<>> /\ s[Len(s)] \in Whitespace THEN RStrip(SubSeq(s, 1, Len(s) - 1)) ELSE s

Strip(s) == RStrip(LStrip(s))

\* app.py 72: CSRFProtect(app) leaves WTF_CSRF_ENABLED at its default True;
\* tests/conftest.py 53 switches it off
Configs == [WTF_CSRF_ENABLED : BOOLEAN]

\* no request has been handled, no object of the session has a collection
NoRequest ==
    /\ reminder_template = {}
    /\ service_reminder = {}
    /\ reminders = [s \in ServiceIds |-> {}]
    /\ services = [r \in ReminderIds |-> {}]
    /\ request = None
    /\ form = None
    /\ response = None

\* the services the consumption calculations read measurements of
ServicesPresent ==
    /\ config = [WTF_CSRF_ENABLED |-> TRUE]
    /\ service = {[id |-> 1, name |-> <<"W">>], [id |-> 2, name |-> <<"G">>]}
    /\ NoRequest

\* HW_2/main.py before its line 58
RaceIdle ==
    /\ cars = [i \in CarIds |-> None]
    /\ distance = None
    /\ race_dist = 0
    /\ winner = None
    /\ main = [pc |-> "construct", car |-> 1]

\* lists_common_elements has not been called
ListIdle ==
    /\ list_1 = <<>>
    /\ list_2 = <<>>
    /\ common = None

Init ==
    /\ measurement = {}
    /\ IdleInit
    /\ ServicesPresent /\ RaceIdle /\ ListIdle

AllIdle == \A c \in Invocations : pc[c] = "idle"

\* routes.add_measurement with a valid form: one row is inserted and committed
AddMeasurement(sids, dates, values) ==
    /\ Cardinality(measurement) < MaxRows
    /\ \E s \in sids, d \in dates, v \in values :
          measurement' = measurement \cup
              {[id |-> NextId(measurement), service_id |-> s, date |-> d, value |-> v]}
    /\ UNCHANGED <<pc, self_measurements, args, ms, idx, total, prev_value, result>>
    /\ UNCHANGED <<storeVars, raceVars, listVars>>

\* service.consumption_for_month(year, month) run to its end without interruption
CallAlone(c, years, months) ==
    /\ pc[c] = "loaded"
    /\ \E y \in years, mo \in months :
          /\ args' = [args EXCEPT ![c] = Some([year |-> y, month |-> mo])]
          /\ result' = [result EXCEPT
                ![c] = ConsumptionForMonth(self_measurements[c], y, mo)]
    /\ self_measurements' =
          [self_measurements EXCEPT ![c] = AfterSorted(self_measurements[c])]
    /\ pc' = [pc EXCEPT ![c] = "done"]
    /\ UNCHANGED <<measurement, ms, idx, total, prev_value>>
    /\ UNCHANGED <<storeVars, raceVars, listVars>>

\* the relationship service.measurements is loaded, at the latest by its use in line 118
Load(c, sids) ==
    /\ pc[c] = "idle"
    /\ \E s \in sids : \E coll \in Relationship(measurement, s) :
          self_measurements' = [self_measurements EXCEPT ![c] = coll]
    /\ pc' = [pc EXCEPT ![c] = "loaded"]
    /\ UNCHANGED <<measurement, args, ms, idx, total, prev_value, result>>
    /\ UNCHANGED <<storeVars, raceVars, listVars>>

\* ms = sorted(...); total = Decimal("0"); prev_value = None
Call(c, years, months) ==
    /\ pc[c] = "loaded"
    /\ \E y \in years, mo \in months :
          args' = [args EXCEPT ![c] = Some([year |-> y, month |-> mo])]
    /\ ms' = [ms EXCEPT ![c] = SortedByDate(self_measurements[c])]
    /\ self_measurements' =
          [self_measurements EXCEPT ![c] = AfterSorted(self_measurements[c])]
    /\ idx' = [idx EXCEPT ![c] = 1]
    /\ total' = [total EXCEPT ![LocalOf(c)] = InitLocals.total]
    /\ prev_value' = [prev_value EXCEPT ![LocalOf(c)] = InitLocals.prev_value]
    /\ pc' = [pc EXCEPT ![c] = "loop"]
    /\ UNCHANGED <<measurement, result>>
    /\ UNCHANGED <<storeVars, raceVars, listVars>>

\* one iteration of: for m in ms
Iterate(c) ==
    /\ pc[c] = "loop"
    /\ idx[c] <= Len(ms[c])
    /\ LET f == LocalOf(c)
           loc == LoopBody([total |-> total[f], prev_value |-> prev_value[f]],
                           ms[c][idx[c]], ms[c], args[c][1].year, args[c][1].month)
       IN  /\ total' = [total EXCEPT ![f] = loc.total]
           /\ prev_value' = [prev_value EXCEPT ![f] = loc.prev_value]
    /\ idx' = [idx EXCEPT ![c] = idx[c] + 1]
    /\ UNCHANGED <<measurement, pc, self_measurements, args, ms, result>>
    /\ UNCHANGED <<storeVars, raceVars, listVars>>

\* the loop is exhausted: return total; the frame and its locals are gone
Finish(c) ==
    /\ pc[c] = "loop"
    /\ idx[c] > Len(ms[c])
    /\ LET f == LocalOf(c)
       IN  /\ result' = [result EXCEPT
                  ![c] = ReturnValue([total |-> total[f], prev_value |-> prev_value[f]])]
           /\ total' = [total EXCEPT ![f] = 0]
           /\ prev_value' = [prev_value EXCEPT ![f] = None]
    /\ ms' = [ms EXCEPT ![c] = <<>>]
    /\ idx' = [idx EXCEPT ![c] = 0]
    /\ pc' = [pc EXCEPT ![c] = "done"]
    /\ UNCHANGED <<measurement, self_measurements, args>>
    /\ UNCHANGED <<storeVars, raceVars, listVars>>

\* the caller has used the result; the request ends and its session is closed
Return(c) ==
    /\ pc[c] = "done"
    /\ pc' = [pc EXCEPT ![c] = "idle"]
    /\ self_measurements' = [self_measurements EXCEPT ![c] = <<>>]
    /\ args' = [args EXCEPT ![c] = None]
    /\ result' = [result EXCEPT ![c] = None]
    /\ UNCHANGED <<measurement, ms, idx, total, prev_value>>
    /\ UNCHANGED <<storeVars, raceVars, listVars>>

\* the columns date and value of a row
Readings(dates, values) == [date : dates, value : values]

RECURSIVE Lists(_, _)
\* the lists of at most n readings
Lists(readings, n) ==
    IF n = 0 THEN {<<>>}
    ELSE LET shorter == Lists(readings, n - 1)
         IN  shorter \cup
             {Append(s, r) : s \in {t \in shorter : Len(t) = n - 1}, r \in readings}

\* the rows of service sid after readings were added one by one in the order of list s
TableOf(s, sid) ==
    {[id |-> i, service_id |-> sid, date |-> s[i].date, value |-> s[i].value] :
        i \in 1..Len(s)}

\* the tables of at most n rows of service sid, the rows numbered from the latest
\* date to the earliest
Tables(sid, dates, values, n) ==
    {TableOf(s, sid) : s \in {t \in Lists(Readings(dates, values), n) : IsDateDesc(t)}}

\* the monthly calculation run alone, on every series of the domain
InitMonth ==
    /\ measurement \in Tables(1, Dates, Values, MaxRows)
    /\ IdleInit
    /\ ServicesPresent /\ RaceIdle /\ ListIdle

NextMonth ==
    \/ Load(1, {1})
    \/ CallAlone(1, Years, Months)
    \/ Return(1)

SpecMonth == InitMonth /\ [][NextMonth]_vars

\* interleaved invocations on one state of the table
InitConc ==
    /\ measurement \in Tables(1, ConcDates, ConcValues, MaxConcRows)
    /\ IdleInit
    /\ ServicesPresent /\ RaceIdle /\ ListIdle

NextConc ==
    \/ \E c \in Invocations : Load(c, {1})
    \/ \E c \in Invocations : Call(c, Years, ConcMonths)
    \/ \E c \in Invocations : Iterate(c)
    \/ \E c \in Invocations : Finish(c)
    \/ \E c \in Invocations : Return(c)

SpecConc == InitConc /\ [][NextConc]_vars

\* measurement.consumption_from_previous read on a row of the table
GetConsumptionFromPrevious(c) ==
    /\ pc[c] = "idle"
    /\ \E self \in measurement :
          /\ args' = [args EXCEPT ![c] = Some([self |-> self])]
          /\ \E r \in ConsumptionFromPrevious(measurement, self) :
                result' = [result EXCEPT ![c] = r]
    /\ pc' = [pc EXCEPT ![c] = "done"]
    /\ UNCHANGED <<measurement, self_measurements, ms, idx, total, prev_value>>
    /\ UNCHANGED <<storeVars, raceVars, listVars>>

\* measurements of two services are added, and the property is read between additions
NextPrev ==
    \/ (AllIdle /\ AddMeasurement(Services, PrevDates, PrevValues))
    \/ GetConsumptionFromPrevious(1)
    \/ Return(1)

SpecPrev == Init /\ [][NextPrev]_vars

(***************************************************************************)
(* The routes that write the tables (routes.py), CSRF protection (app.py,  *)
(* forms.py) and the many-to-many relationship Service <-> ReminderTemplate *)
(* (models.py).  The form fields unit, description, time and note are left *)
(* out: the requests considered carry valid values for them.               *)
(***************************************************************************)
MeasurementIds == 1..MaxRows

\* the date and the value submitted for measurements of the store
StoreDates == {Date(2025, 2, 1)}
StoreValues == {100}

\* the day_of_month submitted: missing, 0, the ends of the range, beyond the range
Days == {None, Some(0), Some(1), Some(31), Some(32)}

\* CSRFProtect(app): before the view of a POST request runs the token of the request
\* is validated, unless WTF_CSRF_ENABLED is off; TRUE when the request may proceed,
\* otherwise it ends with 400
Protect(cfg, token) == ~cfg.WTF_CSRF_ENABLED \/ token

\* validate_on_submit() of a form whose fields carry no validators, on a POST
\* request: only the CSRF token is validated, and only when WTF_CSRF_ENABLED is on
DeleteFormValid(cfg, token) == ~cfg.WTF_CSRF_ENABLED \/ token

\* form = DeleteForm() after form.validate_on_submit()
DeleteForm(cfg, token) ==
    Some([class |-> "DeleteForm", valid |-> DeleteFormValid(cfg, token)])

\* ServiceForm: name = StringField(validators=[DataRequired(), Length(max=100)]);
\* DataRequired rejects the empty string and the string of whitespace only
ServiceFormValid(cfg, token, name) == DeleteFormValid(cfg, token) /\ Strip(name) # <<>>

\* MeasurementForm: service_id is one of the choices and not 0, value is not 0
MeasurementFormValid(cfg, token, sid, value, choices) ==
    /\ DeleteFormValid(cfg, token)
    /\ sid \in choices /\ sid # 0
    /\ value # 0

\* day_of_month = IntegerField(validators=[DataRequired(), NumberRange(1, 31)])
\* faulty variant: every number submitted is accepted
DayValid_anynumber(day) == day # None
DayValid(day) == day # None /\ day[1] # 0 /\ day[1] >= 1 /\ day[1] <= 31

\* ReminderTemplateForm: services = SelectMultipleField(validators=[Optional()]),
\* every id selected is one of the choices
ReminderTemplateFormValid(cfg, token, day, sel, choices) ==
    /\ DeleteFormValid(cfg, token)
    /\ DayValid(day)
    /\ sel \subseteq choices

\* [(s.id, s.name) for s in Service.query.order_by(Service.name).all()]
Choices(rows) == {s.id : s \in rows}

\* abort(code), CSRFError and the unhandled IntegrityError
Abort(code) == [status |-> code, location |-> None]
\* redirect(url_for(endpoint, ...))
Redirect(endpoint, id) == [status |-> 302, location |-> Some(<<endpoint, id>>)]
\* render_template(...)
Render == [status |-> 200, location |-> None]

\* the request, the form of the view and the response are recorded
Handled(req, f, resp) ==
    /\ request' = req
    /\ form' = f
    /\ response' = resp

\* Service.measurements, cascade='all, delete-orphan': the measurements of a deleted
\* service are deleted with it
\* faulty variant: the measurements stay
Cascade_none(rows, sid) == rows
Cascade(rows, sid) == {m \in rows : m.service_id # sid}

\* db.session.delete(row): the row of this primary key is deleted
\* faulty variant: every row is deleted
DeleteRow_all(rows, id) == {}
DeleteRow(rows, id) == {m \in rows : m.id # id}

\* back_populates: when the collection of owner on one side becomes members, owner is
\* in the collection of exactly those members on the other side
\* faulty variant: the other side is left as it is
Backref_none(other, owner, members) == other
Backref(other, owner, members) ==
    [o \in DOMAIN other |->
        IF o \in members THEN other[o] \cup {owner} ELSE other[o] \ {owner}]

\* a deleted object has no collection any more, ...
Detach(own, x) == [own EXCEPT ![x] = {}]
\* ... and after the commit no collection of the other side holds it
Remove(other, x) == [o \in DOMAIN other |-> other[o] \ {x}]

\* the rows of table 'service_reminder' after the flush: one for every pair linked in
\* a collection
AssociationRows(rem, svc) ==
    {[service_id |-> p[1], reminder_template_id |-> p[2]] :
        p \in {q \in (DOMAIN rem) \X (DOMAIN svc) :
                  q[2] \in rem[q[1]] \/ q[1] \in svc[q[2]]}}

\* name = db.Column(db.String(100), unique=True, nullable=False): the commit of a row
\* whose name another row has raises IntegrityError
\* faulty variant: no constraint
Unique_none(rows, id, name) == TRUE
Unique(rows, id, name) == ~\E s \in rows : s.id # id /\ s.name = name

\* POST /add_service
add_service(tokens, names) ==
    \E token \in tokens, name \in names :
        LET req == [endpoint |-> "add_service", id |-> 0, csrf_token |-> token,
                    data |-> Some(name)]
            f == Some([class |-> "ServiceForm",
                       valid |-> ServiceFormValid(config, token, name)])
            id == NextId(service)
        IN  /\ IF ~Protect(config, token)
                  THEN Handled(req, None, Abort(400)) /\ UNCHANGED service
               ELSE IF ~f[1].valid
                  THEN Handled(req, f, Render) /\ UNCHANGED service
               ELSE IF ~Unique(service, id, Strip(name))
                  \* the IntegrityError is not handled, the session is rolled back
                  THEN Handled(req, f, Abort(500)) /\ UNCHANGED service
               ELSE /\ id <= MaxServices
                    /\ service' = service \cup {[id |-> id, name |-> Strip(name)]}
                    /\ Handled(req, f, Redirect("index", 0))
            /\ UNCHANGED <<measurement, config, reminder_template, service_reminder,
                           reminders, services>>
            /\ UNCHANGED <<calcVars, raceVars, listVars>>

\* POST /edit_service/<service_id>
edit_service(tokens, ids, names) ==
    \E token \in tokens, id \in ids, name \in names :
        LET req == [endpoint |-> "edit_service", id |-> id, csrf_token |-> token,
                    data |-> Some(name)]
            f == Some([class |-> "ServiceForm",
                       valid |-> ServiceFormValid(config, token, name)])
            found == {s \in service : s.id = id}
        IN  /\ IF ~Protect(config, token)
                  THEN Handled(req, None, Abort(400)) /\ UNCHANGED service
               ELSE IF found = {}
                  THEN Handled(req, None, Abort(404)) /\ UNCHANGED service
               ELSE IF ~f[1].valid
                  THEN Handled(req, f, Render) /\ UNCHANGED service
               ELSE IF ~Unique(service, id, Strip(name))
                  \* the IntegrityError is not handled, the session is rolled back
                  THEN Handled(req, f, Abort(500)) /\ UNCHANGED service
               ELSE /\ service' = DeleteRow(service, id) \cup
                                      {[id |-> id, name |-> Strip(name)]}
                    /\ Handled(req, f, Redirect("service_detail", id))
            /\ UNCHANGED <<measurement, config, reminder_template, service_reminder,
                           reminders, services>>
            /\ UNCHANGED <<calcVars, raceVars, listVars>>

\* POST /add_measurement
add_measurement(tokens, sids, dates, values) ==
    \E token \in tokens, sid \in sids, d \in dates, v \in values :
        LET req == [endpoint |-> "add_measurement", id |-> 0, csrf_token |-> token,
                    data |-> Some(sid)]
            f == Some([class |-> "MeasurementForm",
                       valid |-> MeasurementFormValid(config, token, sid, v,
                                                      Choices(service))])
        IN  /\ IF ~Protect(config, token)
                  THEN Handled(req, None, Abort(400)) /\ UNCHANGED measurement
               ELSE IF ~f[1].valid
                  THEN Handled(req, f, Render) /\ UNCHANGED measurement
               ELSE /\ NextId(measurement) <= MaxRows
                    /\ measurement' = measurement \cup
                          {[id |-> NextId(measurement), service_id |-> sid,
                            date |-> d, value |-> v]}
                    /\ Handled(req, f, Redirect("index", 0))
            /\ UNCHANGED <<config, service, reminder_template, service_reminder,
                           reminders, services>>
            /\ UNCHANGED <<calcVars, raceVars, listVars>>

\* POST /delete/<id>
delete_measurement(tokens, ids) ==
    \E token \in tokens, id \in ids :
        LET req == [endpoint |-> "delete_measurement", id |-> id, csrf_token |-> token,
                    data |-> None]
            f == DeleteForm(config, token)
            found == {m \in measurement : m.id = id}
        IN  /\ IF ~Protect(config, token)
                  THEN Handled(req, None, Abort(400)) /\ UNCHANGED measurement
               ELSE IF ~f[1].valid
                  THEN Handled(req, f, Abort(400)) /\ UNCHANGED measurement
               ELSE IF found = {}
                  THEN Handled(req, f, Abort(404)) /\ UNCHANGED measurement
               ELSE /\ measurement' = DeleteRow(measurement, id)
                    /\ \E m \in found :
                          Handled(req, f, Redirect("service_detail", m.service_id))
            /\ UNCHANGED <<config, service, reminder_template, service_reminder,
                           reminders, services>>
            /\ UNCHANGED <<calcVars, raceVars, listVars>>

\* db.session.delete(service); db.session.commit(): the service, its measurements and
\* its rows of the association table are deleted
DeleteService(id) ==
    /\ service' = DeleteRow(service, id)
    /\ measurement' = Cascade(measurement, id)
    /\ reminders' = Detach(reminders, id)
    /\ services' = Remove(services, id)
    /\ service_reminder' = AssociationRows(reminders', services')
    /\ UNCHANGED <<config, reminder_template>>

\* POST /delete_service/<service_id>
delete_service(tokens, ids) ==
    \E token \in tokens, id \in ids :
        LET req == [endpoint |-> "delete_service", id |-> id, csrf_token |-> token,
                    data |-> None]
            found == {s \in service : s.id = id}
        IN  /\ IF ~Protect(config, token)
                  THEN /\ Handled(req, None, Abort(400))
                       /\ UNCHANGED <<measurement, config, service, reminder_template,
                                      service_reminder, reminders, services>>
               ELSE IF found = {}
                  THEN /\ Handled(req, None, Abort(404))
                       /\ UNCHANGED <<measurement, config, service, reminder_template,
                                      service_reminder, reminders, services>>
               ELSE /\ DeleteService(id)
                    /\ Handled(req, None, Redirect("index", 0))
            /\ UNCHANGED <<calcVars, raceVars, listVars>>

\* session.delete(service); session.commit() on a stored service, without a request
SessionDelete(ids) ==
    \E id \in ids :
        /\ \E s \in service : s.id = id
        /\ DeleteService(id)
        /\ Handled([endpoint |-> "session.delete", id |-> id, csrf_token |-> TRUE,
                    data |-> None], None, None)
        /\ UNCHANGED <<calcVars, raceVars, listVars>>

\* POST /reminder_templates
reminder_templates(tokens, days, sels) ==
    \E token \in tokens, day \in days, sel \in sels :
        LET req == [endpoint |-> "reminder_templates", id |-> 0, csrf_token |-> token,
                    data |-> day]
            f == Some([class |-> "ReminderTemplateForm",
                       valid |-> ReminderTemplateFormValid(config, token, day, sel,
                                                           Choices(service))])
            id == NextId(reminder_template)
        IN  /\ IF ~Protect(config, token)
                  THEN /\ Handled(req, None, Abort(400))
                       /\ UNCHANGED <<reminder_template, service_reminder, reminders,
                                      services>>
               ELSE IF ~f[1].valid
                  THEN /\ Handled(req, f, Render)
                       /\ UNCHANGED <<reminder_template, service_reminder, reminders,
                                      services>>
               ELSE /\ id <= MaxReminders
                    /\ reminder_template' = reminder_template \cup
                          {[id |-> id, day_of_month |-> day[1]]}
                    /\ services' = [services EXCEPT ![id] = sel]
                    /\ reminders' = Backref(reminders, id, sel)
                    /\ service_reminder' = AssociationRows(reminders', services')
                    /\ Handled(req, f, Redirect("reminder_templates", 0))
            /\ UNCHANGED <<measurement, config, service>>
            /\ UNCHANGED <<calcVars, raceVars, listVars>>

\* POST /edit_reminder/<id>
edit_reminder(tokens, ids, days, sels) ==
    \E token \in tokens, id \in ids, day \in days, sel \in sels :
        LET req == [endpoint |-> "edit_reminder", id |-> id, csrf_token |-> token,
                    data |-> day]
            f == Some([class |-> "ReminderTemplateForm",
                       valid |-> ReminderTemplateFormValid(config, token, day, sel,
                                                           Choices(service))])
            found == {r \in reminder_template : r.id = id}
        IN  /\ IF ~Protect(config, token)
                  THEN /\ Handled(req, None, Abort(400))
                       /\ UNCHANGED <<reminder_template, service_reminder, reminders,
                                      services>>
               ELSE IF found = {}
                  THEN /\ Handled(req, None, Abort(404))
                       /\ UNCHANGED <<reminder_template, service_reminder, reminders,
                                      services>>
               ELSE IF ~f[1].valid
                  THEN /\ Handled(req, f, Render)
                       /\ UNCHANGED <<reminder_template, service_reminder, reminders,
                                      services>>
               ELSE /\ reminder_template' = DeleteRow(reminder_template, id) \cup
                          {[id |-> id, day_of_month |-> day[1]]}
                    /\ services' = [services EXCEPT ![id] = sel]
                    /\ reminders' = Backref(reminders, id, sel)
                    /\ service_reminder' = AssociationRows(reminders', services')
                    /\ Handled(req, f, Redirect("reminder_templates", 0))
            /\ UNCHANGED <<measurement, config, service>>
            /\ UNCHANGED <<calcVars, raceVars, listVars>>

\* POST /delete_reminder/<id>
delete_reminder(tokens, ids) ==
    \E token \in tokens, id \in ids :
        LET req == [endpoint |-> "delete_reminder", id |-> id, csrf_token |-> token,
                    data |-> None]
            f == DeleteForm(config, token)
            found == {r \in reminder_template : r.id = id}
        IN  /\ IF ~Protect(config, token)
                  THEN /\ Handled(req, None, Abort(400))
                       /\ UNCHANGED <<reminder_template, service_reminder, reminders,
                                      services>>
               ELSE IF ~f[1].valid
                  THEN /\ Handled(req, f, Abort(400))
                       /\ UNCHANGED <<reminder_template, service_reminder, reminders,
                                      services>>
               ELSE IF found = {}
                  THEN /\ Handled(req, f, Abort(404))
                       /\ UNCHANGED <<reminder_template, service_reminder, reminders,
                                      services>>
               ELSE /\ reminder_template' = DeleteRow(reminder_template, id)
                    /\ services' = Detach(services, id)
                    /\ reminders' = Remove(reminders, id)
                    /\ service_reminder' = AssociationRows(reminders', services')
                    /\ Handled(req, f, Redirect("reminder_templates", 0))
            /\ UNCHANGED <<measurement, config, service>>
            /\ UNCHANGED <<calcVars, raceVars, listVars>>

\* reminder.services.append(service) on two stored objects, not yet committed
AppendService(rids, sids) ==
    \E r \in rids, s \in sids :
        /\ \E x \in reminder_template : x.id = r
        /\ \E x \in service : x.id = s
        /\ s \notin services[r]
        /\ services' = [services EXCEPT ![r] = services[r] \cup {s}]
        /\ reminders' = Backref(reminders, r, services[r] \cup {s})
        /\ Handled([endpoint |-> "services.append", id |-> r, csrf_token |-> TRUE,
                    data |-> None], None, None)
        /\ UNCHANGED <<measurement, config, service, reminder_template, service_reminder>>
        /\ UNCHANGED <<calcVars, raceVars, listVars>>

\* service.reminders.append(reminder) on two stored objects, not yet committed
AppendReminder(sids, rids) ==
    \E s \in sids, r \in rids :
        /\ \E x \in service : x.id = s
        /\ \E x \in reminder_template : x.id = r
        /\ r \notin reminders[s]
        /\ reminders' = [reminders EXCEPT ![s] = reminders[s] \cup {r}]
        /\ services' = Backref(services, s, reminders[s] \cup {r})
        /\ Handled([endpoint |-> "reminders.append", id |-> s, csrf_token |-> TRUE,
                    data |-> None], None, None)
        /\ UNCHANGED <<measurement, config, service, reminder_template, service_reminder>>
        /\ UNCHANGED <<calcVars, raceVars, listVars>>

\* session.commit(): the links appended are flushed to the association table
Commit ==
    /\ service_reminder # AssociationRows(reminders, services)
    /\ service_reminder' = AssociationRows(reminders, services)
    /\ Handled([endpoint |-> "session.commit", id |-> 0, csrf_token |-> TRUE,
                data |-> None], None, None)
    /\ UNCHANGED <<measurement, config, service, reminder_template, reminders, services>>
    /\ UNCHANGED <<calcVars, raceVars, listVars>>

\* an empty database; the application runs with either setting of WTF_CSRF_ENABLED
InitStore ==
    /\ measurement = {}
    /\ config \in Configs
    /\ service = {}
    /\ NoRequest
    /\ IdleInit /\ RaceIdle /\ ListIdle

\* services and measurements are added and deleted
NextDelete ==
    \/ add_service(BOOLEAN, Names)
    \/ add_measurement(BOOLEAN, ServiceIds, StoreDates, StoreValues)
    \/ delete_measurement(BOOLEAN, MeasurementIds)
    \/ delete_service(BOOLEAN, ServiceIds)
    \/ SessionDelete(ServiceIds)

SpecDelete == InitStore /\ [][NextDelete]_vars

\* services and reminders are created, linked from either side, edited and deleted;
\* every request carries a valid token and a valid day
NextLinks ==
    \/ add_service({TRUE}, Names)
    \/ delete_service({TRUE}, ServiceIds)
    \/ reminder_templates({TRUE}, {Some(1)}, SUBSET ServiceIds)
    \/ edit_reminder({TRUE}, ReminderIds, {Some(1)}, SUBSET ServiceIds)
    \/ delete_reminder({TRUE}, ReminderIds)
    \/ AppendService(ReminderIds, ServiceIds)
    \/ AppendReminder(ServiceIds, ReminderIds)
    \/ Commit

SpecLinks == InitStore /\ [][NextLinks]_vars

\* reminders are created, edited and deleted with every day of the domain
NextDays ==
    \/ reminder_templates(BOOLEAN, Days, {{}})
    \/ edit_reminder(BOOLEAN, ReminderIds, Days, {{}})
    \/ delete_reminder(BOOLEAN, ReminderIds)

SpecDays == InitStore /\ [][NextDays]_vars

\* services are added, renamed and deleted, measurements are added and deleted; the
\* service ids and measurement ids of the requests may name no row
NextRoutes ==
    \/ add_service({TRUE}, Names)
    \/ edit_service({TRUE}, ServiceIds, Names)
    \/ delete_service({TRUE}, ServiceIds)
    \/ add_measurement(BOOLEAN, ServiceIds, StoreDates, StoreValues)
    \/ delete_measurement({TRUE}, MeasurementIds)

SpecRoutes == InitStore /\ [][NextRoutes]_vars

\* services are added, renamed and deleted; the names come padded, blank and empty
NextNames ==
    \/ add_service(BOOLEAN, RawNames)
    \/ edit_service(BOOLEAN, ServiceIds, RawNames)
    \/ delete_service({TRUE}, ServiceIds)

SpecNames == InitStore /\ [][NextNames]_vars

(***************************************************************************)
(* HW_2/main.py: class Car and the race.  The attributes model and color   *)
(* are left out.                                                           *)
(***************************************************************************)
desired_dist == 12

\* random.randrange(a, b): an integer from a up to, not including, b
Randrange(a, b) == a..(b - 1)

\* Car.__init__: self.fuel = random.randrange(0, 8); self.trip_distance = 0
NewCars == {[fuel |-> f, trip_distance |-> 0] : f \in Randrange(0, 8)}

\* Car.move
\* faulty variant: the distance is not limited to the fuel
Move_unlimited(car, d) == [fuel |-> car.fuel - d, trip_distance |-> car.trip_distance + d]
Move(car, d) ==
    LET dist == IF d > car.fuel THEN car.fuel ELSE d
    IN  [fuel |-> car.fuel - dist, trip_distance |-> car.trip_distance + dist]

\* the distances passed to move by a caller: 0, ..., MaxDistance
Distances == 0..MaxDistance

\* c = Car(...)
Construct(i) ==
    /\ cars[i] = None
    /\ \E car \in NewCars : cars' = [cars EXCEPT ![i] = Some(car)]
    /\ UNCHANGED <<distance, race_dist, winner, main>>
    /\ UNCHANGED <<measurement, calcVars, storeVars, listVars>>

\* c.move(distance)
CallMove(i, ds) ==
    /\ cars[i] # None
    /\ \E d \in ds :
          /\ distance' = Some(d)
          /\ cars' = [cars EXCEPT ![i] = Some(Move(cars[i][1], d))]
    /\ UNCHANGED <<race_dist, winner, main>>
    /\ UNCHANGED <<measurement, calcVars, storeVars, listVars>>

\* lines 58-62: car_1, car_2 and car_3 are constructed in turn
RaceConstruct ==
    /\ main.pc = "construct"
    /\ \E car \in NewCars : cars' = [cars EXCEPT ![main.car] = Some(car)]
    /\ main' = IF main.car = 3 THEN [pc |-> "while", car |-> 1]
               ELSE [pc |-> "construct", car |-> main.car + 1]
    /\ UNCHANGED <<distance, race_dist, winner>>
    /\ UNCHANGED <<measurement, calcVars, storeVars, listVars>>

\* line 70: all(car.fuel <= 0 for car in cars)
\* faulty variant: any(...)
AllOutOfFuel_any(cs) == \E i \in CarIds : cs[i][1].fuel <= 0
AllOutOfFuel(cs) == \A i \in CarIds : cs[i][1].fuel <= 0

\* lines 68-72: while race_dist < desired_dist, and the check that a car has fuel
While ==
    /\ main.pc = "while"
    /\ main' = IF race_dist < desired_dist /\ ~AllOutOfFuel(cars)
                  THEN [pc |-> "for", car |-> 1]
               ELSE [pc |-> "end", car |-> 1]
    /\ UNCHANGED <<cars, distance, race_dist, winner>>
    /\ UNCHANGED <<measurement, calcVars, storeVars, listVars>>

\* lines 74-81: one iteration of: for car in cars
Turn ==
    /\ main.pc = "for"
    /\ \E d \in Randrange(0, 9) :
          LET car == Move(cars[main.car][1], d)
          IN  /\ distance' = Some(d)
              /\ cars' = [cars EXCEPT ![main.car] = Some(car)]
              /\ IF car.trip_distance >= desired_dist
                    THEN /\ winner' = Some(main.car)
                         /\ race_dist' = desired_dist
                         /\ main' = [pc |-> "while", car |-> 1]
                 ELSE /\ UNCHANGED <<winner, race_dist>>
                      /\ main' = IF main.car = 3 THEN [pc |-> "while", car |-> 1]
                                 ELSE [pc |-> "for", car |-> main.car + 1]
    /\ UNCHANGED <<measurement, calcVars, storeVars, listVars>>

\* nothing but the program of this section runs
InitRace ==
    /\ measurement = {}
    /\ IdleInit /\ ServicesPresent /\ RaceIdle /\ ListIdle

\* one car is constructed and moved by any distances
NextCar ==
    \/ Construct(1)
    \/ CallMove(1, Distances)

SpecCar == InitRace /\ [][NextCar]_vars

\* the program HW_2/main.py
NextRace ==
    \/ RaceConstruct
    \/ While
    \/ Turn

SpecRace == InitRace /\ [][NextRace]_vars

(***************************************************************************)
(* HW_1/task_3/main.py: lists_common_elements                              *)
(***************************************************************************)
\* the elements of the lists
Elems == {"a", "b", "c"}

\* the number of occurrences of x in a list
Count(x, list) == Cardinality({i \in 1..Len(list) : list[i] = x})

RECURSIVE Keys(_)
\* the keys of Counter(list): its elements in the order of their first occurrence
Keys(list) ==
    IF list = <<>> THEN <<>>
    ELSE LET front == SubSeq(list, 1, Len(list) - 1)
             last == list[Len(list)]
         IN  IF \E i \in 1..Len(front) : front[i] = last
                THEN Keys(front)
             ELSE Append(Keys(front), last)

\* Counter(list)
Counter(list) ==
    [keys |-> Keys(list),
     count |-> [x \in {list[i] : i \in 1..Len(list)} |-> Count(x, list)]]

\* counter[x]: 0 for a missing key
CountOf(counter, x) == IF x \in DOMAIN counter.count THEN counter.count[x] ELSE 0

\* counter_1 & counter_2: the keys of counter_1, in its order, whose smaller count is
\* positive, each with the smaller count
\* faulty variant: each common key with its count in counter_1
Intersection_first(counter_1, counter_2) ==
    LET Positive(x) == CountOf(counter_2, x) > 0
    IN  [keys |-> SelectSeq(counter_1.keys, Positive),
         count |-> [x \in {y \in DOMAIN counter_1.count : Positive(y)} |->
                       CountOf(counter_1, x)]]
Intersection(counter_1, counter_2) ==
    LET Positive(x) == Min(CountOf(counter_1, x), CountOf(counter_2, x)) > 0
    IN  [keys |-> SelectSeq(counter_1.keys, Positive),
         count |-> [x \in {y \in DOMAIN counter_1.count : Positive(y)} |->
                       Min(CountOf(counter_1, x), CountOf(counter_2, x))]]

RECURSIVE Repeated(_, _)
\* counter.elements(): every key as many times as its count, the keys in their order
Repeated(keys, count) ==
    IF keys = <<>> THEN <<>>
    ELSE [i \in 1..count[Head(keys)] |-> Head(keys)] \o Repeated(Tail(keys), count)

Elements(counter) == Repeated(counter.keys, counter.count)

lists_common_elements(l1, l2) == Elements(Intersection(Counter(l1), Counter(l2)))

\* the function is called on every pair of lists of the domain
InitLists ==
    /\ list_1 \in Lists(Elems, MaxLen)
    /\ list_2 \in Lists(Elems, MaxLen)
    /\ common = None
    /\ measurement = {}
    /\ IdleInit /\ ServicesPresent /\ RaceIdle

\* common = lists_common_elements(list_1, list_2)
CallCommon ==
    /\ common = None
    /\ common' = Some(lists_common_elements(list_1, list_2))
    /\ UNCHANGED <<list_1, list_2>>
    /\ UNCHANGED <<measurement, calcVars, storeVars, raceVars>>

NextLists == CallCommon

SpecLists == InitLists /\ [][NextLists]_vars

(***************************************************************************)
(* Vocabulary of the properties, stated on sets of rows and independent of *)
(* the definitions of the calculation above                                *)
(***************************************************************************)
Returned(c) == pc[c] = "done" /\ args[c] # None /\ "year" \in DOMAIN args[c][1]
Coll(c) == self_measurements[c]
YearOf(c) == args[c][1].year
MonthOf(c) == args[c][1].month

RowsOf(list) == {list[i] : i \in 1..Len(list)}
DistinctDates(rows) == \A r, q \in rows : r.date = q.date => r = q
DatedIn(r, y, mo) == r.date.year = y /\ r.date.month = mo
DatedBefore(r, y, mo) == r.date.year < y \/ (r.date.year = y /\ r.date.month < mo)
DatedAfter(r, y, mo) == r.date.year > y \/ (r.date.year = y /\ r.date.month > mo)
InRows(c) == {r \in RowsOf(Coll(c)) : DatedIn(r, YearOf(c), MonthOf(c))}
BeforeRows(c) == {r \in RowsOf(Coll(c)) : DatedBefore(r, YearOf(c), MonthOf(c))}
AfterRows(c) == {r \in RowsOf(Coll(c)) : DatedAfter(r, YearOf(c), MonthOf(c))}

\* the rows of a set that no row of the set is dated after
Latest(rows) == {r \in rows : \A q \in rows : ~DateLT(r.date, q.date)}
Earliest(rows) == {r \in rows : \A q \in rows : ~DateLT(q.date, r.date)}

\* the carry-in value when dates are distinct
CarryIn(c) ==
    IF BeforeRows(c) = {} THEN 0 ELSE (CHOOSE r \in Latest(BeforeRows(c)) : TRUE).value

\* the value a row of the month is compared with: the one of the row of the month
\* dated next before it, the carry-in value for the first row of the month
Predecessor(c, r) ==
    LET P == {q \in InRows(c) : DateLT(q.date, r.date)}
    IN  IF P = {} THEN CarryIn(c) ELSE (CHOOSE q \in Latest(P) : TRUE).value

RECURSIVE SumOfDeltas(_, _)
SumOfDeltas(c, rows) ==
    IF rows = {} THEN 0
    ELSE LET r == CHOOSE x \in rows : TRUE
         IN  (r.value - Predecessor(c, r)) + SumOfDeltas(c, rows \ {r})

\* the list without the rows of a set
Without(list, rows) ==
    LET Keep(r) == r \notin rows
    IN  SelectSeq(list, Keep)

(***************************************************************************)
(* Properties of consumption_for_month run alone (SpecMonth)               *)
(***************************************************************************)
\* C1: with pairwise distinct dates and at least one reading in the month, the result
\* is the sum (v1 - b) + (v2 - v1) + ... + (vk - v(k-1)) over the readings of the month
\* in ascending date order, b being the value of the latest reading before the month,
\* or 0 without one.
C1_SumOfDeltas ==
    \A c \in Invocations :
        (Returned(c) /\ DistinctDates(RowsOf(Coll(c))) /\ InRows(c) # {})
            => result[c] = Some(SumOfDeltas(c, InRows(c)))

C1_Witness ==
    /\ Returned(1)
    /\ DistinctDates(RowsOf(Coll(1)))
    /\ Cardinality(InRows(1)) = 2
    /\ BeforeRows(1) # {}
    /\ \A r \in InRows(1) : r.value # CarryIn(1)

\* C2: with no reading dated in the month the result is the decimal 0, not None,
\* whatever lies before or after the month.
C2_ZeroWithoutReadings ==
    \A c \in Invocations :
        (Returned(c) /\ InRows(c) = {}) => result[c] = Some(0)

C2_Witness ==
    /\ Returned(1)
    /\ InRows(1) = {}
    /\ BeforeRows(1) # {}
    /\ AfterRows(1) # {}
    /\ result[1] = Some(0)

\* C3: with exactly one reading in the month the result is its value minus the value
\* of a latest-dated reading before the month, and its value itself when the series
\* has no reading before the month.
C3_SingleReading ==
    \A c \in Invocations :
        (Returned(c) /\ Cardinality(InRows(c)) = 1)
            => \A r \in InRows(c) :
                  /\ BeforeRows(c) = {} => result[c] = Some(r.value)
                  /\ BeforeRows(c) # {} =>
                        \E p \in Latest(BeforeRows(c)) : result[c] = Some(r.value - p.value)

C3_Witness ==
    /\ Returned(1)
    /\ Cardinality(InRows(1)) = 1
    /\ Cardinality(BeforeRows(1)) = 2
    /\ DistinctDates(RowsOf(Coll(1)))
    /\ \A p \in Latest(BeforeRows(1)), q \in Earliest(BeforeRows(1)) : p.value # q.value

\* C4: taking any readings dated after the month out of the series leaves the result
\* as it is: the result on S and on S with later readings added are the same.
C4_LaterReadingsIgnored ==
    \A c \in Invocations :
        Returned(c) =>
            \A L \in SUBSET AfterRows(c) :
                ConsumptionForMonth(Without(Coll(c), L), YearOf(c), MonthOf(c)) = result[c]

C4_Witness ==
    /\ Returned(1)
    /\ InRows(1) # {}
    /\ Cardinality(AfterRows(1)) = 2
    /\ result[1] # Some(0)

\* C5 as claimed: every permutation of the readings supplied gives the same result.
C5_AnyOrder ==
    \A c \in Invocations :
        Returned(c) =>
            \A p \in Orderings(RowsOf(Coll(c))) :
                ConsumptionForMonth(p, YearOf(c), MonthOf(c)) = result[c]

\* C5, amended: every permutation of the readings gives the same result when readings
\* of the same date have the same value (in particular when dates are distinct).
C5_AnyOrderWhenDatesAgree ==
    \A c \in Invocations :
        (Returned(c) /\ \A r, q \in RowsOf(Coll(c)) : r.date = q.date => r.value = q.value)
            => \A p \in Orderings(RowsOf(Coll(c))) :
                  ConsumptionForMonth(p, YearOf(c), MonthOf(c)) = result[c]

C5_Witness ==
    /\ Returned(1)
    /\ DistinctDates(RowsOf(Coll(1)))
    /\ Cardinality(InRows(1)) = 2
    /\ BeforeRows(1) # {}
    /\ \A r, q \in RowsOf(Coll(1)) : r # q => r.value # q.value

\* C9: the arithmetic is exact: when the readings of the month, in date order, step
\* by 0.1 twice from the first one, they add exactly 0.2 to the first difference.
C9_ExactDecimal ==
    \A c \in Invocations :
        (Returned(c) /\ DistinctDates(RowsOf(Coll(c))) /\ Cardinality(InRows(c)) = 3)
            => \A r1, r2, r3 \in InRows(c) :
                  (/\ DateLT(r1.date, r2.date) /\ DateLT(r2.date, r3.date)
                   /\ r2.value = r1.value + 100 /\ r3.value = r2.value + 100)
                      => result[c] = Some((r1.value - CarryIn(c)) + 200)

C9_Witness ==
    /\ Returned(1)
    /\ DistinctDates(RowsOf(Coll(1)))
    /\ \E r1, r2, r3 \in InRows(1) :
          /\ DateLT(r1.date, r2.date) /\ DateLT(r2.date, r3.date)
          /\ r2.value = r1.value + 100 /\ r3.value = r2.value + 100
          /\ result[1] = Some(r1.value + 200)

(***************************************************************************)
(* Properties of interleaved invocations (SpecConc)                        *)
(***************************************************************************)
\* C6: two invocations that were given the same readings, year and month have returned
\* the same value, whatever other invocations ran before, between or during them.
C6_Deterministic ==
    \A a, b \in Invocations :
        (/\ Returned(a) /\ Returned(b)
         /\ Coll(a) = Coll(b) /\ YearOf(a) = YearOf(b) /\ MonthOf(a) = MonthOf(b))
            => result[a] = result[b]

C6_Witness ==
    /\ Returned(1) /\ Returned(2)
    /\ Coll(1) = Coll(2) /\ YearOf(1) = YearOf(2) /\ MonthOf(1) = MonthOf(2)
    /\ Cardinality(InRows(1)) = 2
    /\ result[1] # Some(0)

\* C7: no step of an invocation changes the rows of the table or the list
\* service.measurements of its Service object, neither its elements nor their order.
C7_ReadingsUnchanged ==
    [][/\ measurement' = measurement
       /\ \A c \in Invocations :
             pc[c] \in {"loaded", "loop"} => self_measurements'[c] = self_measurements[c]]_vars

C7_Witness ==
    /\ pc[1] = "done"
    /\ Len(Coll(1)) = 2
    /\ DateLT(Coll(1)[2].date, Coll(1)[1].date)
    /\ InRows(1) # {}

\* C8: under every interleaving each invocation returns the value the method returns
\* when it runs alone on the same list with the same year and month.
C8_AsWhenAlone ==
    \A c \in Invocations :
        Returned(c) => result[c] = ConsumptionForMonth(Coll(c), YearOf(c), MonthOf(c))

C8_Witness ==
    /\ Returned(1)
    /\ pc[2] = "loop" /\ idx[2] = 2
    /\ InRows(1) # {} /\ InRows(2) # {}
    /\ YearOf(1) # YearOf(2)
    /\ result[1] # Some(0)

(***************************************************************************)
(* Properties of consumption_from_previous (SpecPrev)                      *)
(***************************************************************************)
Got(c) == pc[c] = "done" /\ args[c] # None /\ "self" \in DOMAIN args[c][1]
SelfOf(c) == args[c][1].self

\* the rows of the same service dated strictly before a row
EarlierRows(self) ==
    {r \in measurement : r.service_id = self.service_id /\ DateLT(r.date, self.date)}

\* C10: the property is None exactly when the service has no measurement dated
\* strictly before this one; otherwise it is this value minus the value of the
\* measurement of the service with the greatest earlier date; rows of other services
\* and rows of the same or a later date have no influence on what it can return.
C10_FromPrevious ==
    \A c \in Invocations :
        Got(c) =>
            LET self == SelfOf(c)
                E == EarlierRows(self)
            IN  /\ result[c] = None <=> E = {}
                /\ E # {} => \E p \in Latest(E) : result[c] = Some(self.value - p.value)
                /\ \A X \in SUBSET (measurement \ (E \cup {self})) :
                      ConsumptionFromPrevious(measurement \ X, self)
                          = ConsumptionFromPrevious(measurement, self)

C10_Witness ==
    /\ Got(1)
    /\ EarlierRows(SelfOf(1)) # {}
    /\ \E o \in measurement :
          /\ o.service_id # SelfOf(1).service_id
          /\ DateLT(o.date, SelfOf(1).date)
          /\ \A p \in EarlierRows(SelfOf(1)) : DateLT(p.date, o.date) /\ p.value # o.value

(***************************************************************************)
(* Properties of the routes that delete (SpecDelete)                       *)
(***************************************************************************)
\* C11: a step that deletes a service, by session.delete and commit or by a
\* POST /delete_service/<id> answered with the redirect, removes that service and every
\* measurement of it and nothing else: no measurement with that service_id is left,
\* and all other services and measurements are as before.
C11_DeleteServiceCascades ==
    [][(\/ request'.endpoint = "session.delete"
        \/ (request'.endpoint = "delete_service" /\ response'.status = 302))
          => LET id == request'.id
             IN  /\ \E s \in service : s.id = id
                 /\ service' = {s \in service : s.id # id}
                 /\ measurement' = {m \in measurement : m.service_id # id}
                 /\ ~\E m \in measurement' : m.service_id = id]_vars

C11_Witness ==
    /\ request # None
    /\ request.endpoint = "delete_service" /\ response.status = 302
    /\ Cardinality(service) = 1 /\ Cardinality(measurement) = 1
    /\ \A m \in measurement : m.id = 3 /\ \E s \in service : s.id = m.service_id

\* C12: POST /delete/<id> checks in this order: when DeleteForm validation fails the
\* response is 400; otherwise, when no measurement has the id, it is 404; in both cases
\* services and measurements stay as they are.  Otherwise exactly the measurement of
\* that id is deleted, nothing else changes, and the response redirects to the detail
\* page of the service that owned it.
C12_DeleteMeasurementOrder ==
    [][request'.endpoint = "delete_measurement"
          => LET id == request'.id
                 found == {m \in measurement : m.id = id}
             IN  IF ~DeleteFormValid(config, request'.csrf_token)
                    THEN /\ response'.status = 400
                         /\ service' = service /\ measurement' = measurement
                 ELSE IF found = {}
                    THEN /\ response'.status = 404
                         /\ service' = service /\ measurement' = measurement
                 ELSE /\ Cardinality(found) = 1
                      /\ measurement' = measurement \ found
                      /\ service' = service
                      /\ \A m \in found :
                            /\ response'.status = 302
                            /\ response'.location = Some(<<"service_detail", m.service_id>>)]_vars

\* a request with a bad token for an id that no measurement has was answered 400
C12_Witness ==
    /\ request # None
    /\ request.endpoint = "delete_measurement"
    /\ ~DeleteFormValid(config, request.csrf_token)
    /\ measurement # {}
    /\ ~\E m \in measurement : m.id = request.id
    /\ response.status = 400

\* C13 as claimed: POST /delete_service/<id> validates the CSRF token with DeleteForm
\* before it deletes, as delete_measurement and delete_reminder do: the view deletes
\* only after its DeleteForm validated, and when DeleteForm validation fails the request
\* is rejected and the service and its measurements stay stored.
C13_ValidatesDeleteForm ==
    [][request'.endpoint = "delete_service"
          => /\ response'.status = 302
                   => /\ form' = DeleteForm(config, request'.csrf_token)
                      /\ form'[1].valid
             /\ ~DeleteFormValid(config, request'.csrf_token)
                   => /\ response'.status = 400
                      /\ service' = service /\ measurement' = measurement]_vars

(***************************************************************************)
(* Properties of class Car (SpecCar) and of the race (SpecRace)            *)
(***************************************************************************)
\* C14: every call move(distance) with distance >= 0 moves the car by
\* min(distance, fuel): trip_distance grows and fuel shrinks by that amount; with fuel
\* 0 nothing changes, and a distance above the fuel left leaves fuel at exactly 0.
C14_MovesMinOfDistanceAndFuel ==
    [][(cars[1] # None /\ distance' # None)
          => LET before == cars[1][1]
                 after == cars'[1][1]
                 d == distance'[1]
             IN  /\ d >= 0
                 /\ after.trip_distance = before.trip_distance + Min(d, before.fuel)
                 /\ after.fuel = before.fuel - Min(d, before.fuel)
                 /\ before.fuel = 0 => after = before
                 /\ d > before.fuel => after.fuel = 0]_vars

\* the car of test_multiple_moves_accumulate_trip_distance after move(2), move(3), move(5)
C14_Witness ==
    /\ cars[1] = Some([fuel |-> 0, trip_distance |-> 6])
    /\ distance = Some(5)

\* C15 as claimed: a car just constructed has trip_distance 0 and a fuel in 0..8, and
\* each of 0, ..., 8 can be the fuel of the car constructed next; the distance of a
\* turn of the race is in 0..8, and each of 0, ..., 8 can be the distance of a turn.
C15_FuelAndDistanceZeroToEight ==
    /\ main.pc = "construct" =>
          /\ \A i \in CarIds :
                cars[i] # None =>
                    cars[i][1].trip_distance = 0 /\ cars[i][1].fuel \in 0..8
          /\ \A f \in 0..8 :
                ENABLED (RaceConstruct
                         /\ cars'[main.car] = Some([fuel |-> f, trip_distance |-> 0]))
    /\ distance # None => distance[1] \in 0..8
    /\ main.pc = "for" => \A d \in 0..8 : ENABLED (Turn /\ distance' = Some(d))

(***************************************************************************)
(* Properties of the reminder templates (SpecLinks, SpecDays)              *)
(***************************************************************************)
\* C16: in every state a service s is in r.services exactly when r is in s.reminders,
\* after any sequence of links made from either side, reminders created with selected
\* services, edits of a reminder's services and deletions of services and reminders.
C16_BidirectionalLinks ==
    \A s \in ServiceIds, r \in ReminderIds :
        r \in reminders[s] <=> s \in services[r]

\* a reminder was edited to hold both services while the other reminder holds one
C16_Witness ==
    /\ request # None
    /\ request.endpoint = "edit_reminder" /\ response.status = 302
    /\ services[1] = {1, 2} /\ services[2] = {2}
    /\ reminders[1] = {1} /\ reminders[2] = {1, 2}

C18_MultisetIntersection ==
    common # None =>
        /\ \A i \in 1..Len(common[1]) : common[1][i] \in Elems
        /\ \A x \in Elems :
              /\ Count(x, common[1]) = Min(Count(x, list_1), Count(x, list_2))
              /\ Count(x, lists_common_elements(list_2, list_1)) = Count(x, common[1])

\* an element twice in one list and once in the other, another element in one list only
C18_Witness ==
    /\ common # None
    /\ Len(common[1]) = 2
    /\ \E x \in Elems : Count(x, list_1) = 2 /\ Count(x, list_2) = 1
    /\ \E y \in Elems : Count(y, list_1) = 0 /\ Count(y, list_2) = 1
    /\ lists_common_elements(list_2, list_1) # common[1]

(***************************************************************************)
(* Further properties of consumption_for_month run alone (SpecMonth)       *)
(***************************************************************************)
\* the positions of the sorted list that hold readings of the month
InPositions(c) ==
    {i \in 1..Len(SortedByDate(Coll(c))) :
        DatedIn(SortedByDate(Coll(c))[i], YearOf(c), MonthOf(c))}

\* the rows dated before the month but earlier than the latest date before the month
Superseded(c) == BeforeRows(c) \ Latest(BeforeRows(c))

\* C19: the baseline looked up for the first reading of the month, by searching the
\* whole sorted series backwards for a date strictly less than that reading's date, is
\* a reading dated before the month with the greatest such date, never a reading of the
\* month or a later one, and there is none exactly when no reading lies before the
\* month; hence the result is the same without any of the readings dated earlier than
\* the latest reading before the month.
C19_BaselineIsLatestBeforeMonth ==
    \A c \in Invocations :
        (Returned(c) /\ InRows(c) # {})
            => LET list == SortedByDate(Coll(c))
                   first == list[CHOOSE i \in InPositions(c) :
                                    \A j \in InPositions(c) : i <= j]
                   prev == FindPrev(list, first.date)
               IN  /\ prev = None <=> BeforeRows(c) = {}
                   /\ prev # None => prev[1] \in Latest(BeforeRows(c))
                   /\ \A E \in SUBSET Superseded(c) :
                         ConsumptionForMonth(Without(Coll(c), E), YearOf(c), MonthOf(c))
                             = result[c]

\* one reading in the month, two of different dates and values before it
C19_Witness ==
    /\ Returned(1)
    /\ Cardinality(InRows(1)) = 1
    /\ Cardinality(Superseded(1)) = 1
    /\ \A r \in InRows(1), p \in Latest(BeforeRows(1)), q \in Superseded(1) :
          /\ p.value # q.value
          /\ result[1] = Some(r.value - p.value)
          /\ result[1] # Some(r.value - q.value)

\* the list with another value in one of its rows
WithValue(list, q, v) ==
    [i \in 1..Len(list) |-> IF list[i] = q THEN [list[i] EXCEPT !.value = v] ELSE list[i]]

\* C20: with pairwise distinct dates and at least one reading in the month the result
\* is the value of the latest reading of the month minus the carry-in value (the value
\* of the latest reading before the month, or 0), and stays the same when an earlier
\* reading of the month has any other value.
C20_Telescopes ==
    \A c \in Invocations :
        (Returned(c) /\ DistinctDates(RowsOf(Coll(c))) /\ InRows(c) # {})
            => \A last \in Latest(InRows(c)) :
                  /\ result[c] = Some(last.value - CarryIn(c))
                  /\ \A q \in InRows(c) \ {last}, v \in Values :
                        ConsumptionForMonth(WithValue(Coll(c), q, v), YearOf(c), MonthOf(c))
                            = result[c]

\* three readings in the month, the middle one above the last
C20_Witness ==
    /\ Returned(1)
    /\ DistinctDates(RowsOf(Coll(1)))
    /\ Cardinality(InRows(1)) = 3
    /\ \E r1, r2, r3 \in InRows(1) :
          /\ DateLT(r1.date, r2.date) /\ DateLT(r2.date, r3.date)
          /\ r1.value < r3.value /\ r3.value < r2.value
          /\ result[1] = Some(r3.value)

\* the row of a set that comes last in a list among the rows of the set's latest date
LastSupplied(list, rows) ==
    list[Max({i \in 1..Len(list) : list[i] \in Latest(rows)})]

\* C21: readings of the same date keep the order of the collection supplied (the sort
\* is stable): with at least one reading in the month the result is the value of the
\* reading that comes last among those of the month's latest date, minus the baseline;
\* the baseline is 0 without a reading dated before the month, else the value of the
\* reading that comes last among those of the latest date before the month, and so
\* never a reading of the date of the first reading of the month.
C21_TiesByStability ==
    \A c \in Invocations :
        (Returned(c) /\ InRows(c) # {})
            => LET last == LastSupplied(Coll(c), InRows(c))
                   base == IF BeforeRows(c) = {} THEN 0
                           ELSE LastSupplied(Coll(c), BeforeRows(c)).value
               IN  /\ result[c] = Some(last.value - base)
                   /\ \A p \in BeforeRows(c), r \in InRows(c) : DateLT(p.date, r.date)

\* two readings of the same date in the month, of different values, after one reading
\* before the month
C21_Witness ==
    /\ Returned(1)
    /\ Len(Coll(1)) = 3
    /\ Cardinality(BeforeRows(1)) = 1
    /\ Coll(1)[1].date = Coll(1)[2].date
    /\ Coll(1)[1].value # Coll(1)[2].value
    /\ Coll(1)[1] \in InRows(1)
    /\ result[1] = Some(Coll(1)[2].value - Coll(1)[3].value)
    /\ result[1] # Some(Coll(1)[1].value - Coll(1)[3].value)

\* C22: readings need not grow and nothing is clamped: every invocation returns a
\* decimal (no error, never None), every difference counts with its sign, and when the
\* last reading of the month is lower than the carry-in value the result is negative:
\* that reading's value minus the carry-in value.
C22_NoClampNoError ==
    \A c \in Invocations :
        Returned(c) =>
            /\ result[c] # None
            /\ result[c][1] \in Int
            /\ (InRows(c) # {} /\ BeforeRows(c) # {}) =>
                  LET last == LastSupplied(Coll(c), InRows(c))
                      base == LastSupplied(Coll(c), BeforeRows(c))
                  IN  last.value < base.value =>
                         /\ result[c][1] < 0
                         /\ result[c][1] = last.value - base.value

\* the readings of the month rise above the carry-in value and end below it
C22_Witness ==
    /\ Returned(1)
    /\ DistinctDates(RowsOf(Coll(1)))
    /\ Cardinality(InRows(1)) = 2 /\ Cardinality(BeforeRows(1)) = 1
    /\ \E r1, r2 \in InRows(1) :
          /\ DateLT(r1.date, r2.date)
          /\ r2.value < CarryIn(1) /\ CarryIn(1) < r1.value
          /\ result[1] = Some(r2.value - CarryIn(1))
    /\ result[1][1] < 0

\* the calendar months that contain a reading, and the sum of the function over months
MonthsOf(rows) == {<<r.date.year, r.date.month>> : r \in rows}

RECURSIVE SumOverMonths(_, _)
SumOverMonths(coll, months) ==
    IF months = {} THEN 0
    ELSE LET ym == CHOOSE x \in months : TRUE
         IN  ConsumptionForMonth(coll, ym[1], ym[2])[1]
                 + SumOverMonths(coll, months \ {ym})

\* C23: with distinct dates, the results for all calendar months that contain a reading
\* (the month of the call and every other such month, empty months lying in between)
\* add up to the value of the chronologically last reading.
C23_MonthsSumToLastReading ==
    \A c \in Invocations :
        (Returned(c) /\ DistinctDates(RowsOf(Coll(c))) /\ InRows(c) # {})
            => LET rows == RowsOf(Coll(c))
                   others == MonthsOf(rows) \ {<<YearOf(c), MonthOf(c)>>}
               IN  \A last \in Latest(rows) :
                       result[c][1] + SumOverMonths(Coll(c), others) = last.value

\* three readings in three different months, a year apart at one point, not increasing
C23_Witness ==
    /\ Returned(1)
    /\ DistinctDates(RowsOf(Coll(1)))
    /\ Cardinality(MonthsOf(RowsOf(Coll(1)))) = 3
    /\ InRows(1) # {} /\ BeforeRows(1) # {} /\ AfterRows(1) # {}
    /\ result[1][1] < 0
    /\ \A last \in Latest(RowsOf(Coll(1))) :
          result[1][1] + SumOverMonths(Coll(1), MonthsOf(RowsOf(Coll(1)))
                                                   \ {<<YearOf(1), MonthOf(1)>>}) = last.value

\* the sum of consumption_from_previous over a set of rows of a table, for rows that
\* all have a previous row (each contributes its only possible value)
RECURSIVE SumFromPrevious(_, _)
SumFromPrevious(table, rows) ==
    IF rows = {} THEN 0
    ELSE LET r == CHOOSE x \in rows : TRUE
             d == CHOOSE x \in ConsumptionFromPrevious(table, r) : TRUE
         IN  d[1] + SumFromPrevious(table, rows \ {r})

\* C24: with distinct dates, when the first reading of the month has an earlier reading
\* the result equals the sum of consumption_from_previous over the readings of the
\* month; when it has none, consumption_from_previous of that first reading is None
\* while the month counts it from 0, and the other readings of the month still agree.
C24_AgreesWithFromPrevious ==
    \A c \in Invocations :
        (Returned(c) /\ DistinctDates(RowsOf(Coll(c))) /\ InRows(c) # {})
            => LET table == RowsOf(Coll(c))
                   first == CHOOSE r \in Earliest(InRows(c)) : TRUE
               IN  /\ \A r \in InRows(c) \ {first} :
                          /\ Cardinality(ConsumptionFromPrevious(table, r)) = 1
                          /\ None \notin ConsumptionFromPrevious(table, r)
                   /\ IF BeforeRows(c) # {}
                      THEN /\ ConsumptionFromPrevious(table, first) \cap {None} = {}
                           /\ Cardinality(ConsumptionFromPrevious(table, first)) = 1
                           /\ result[c] = Some(SumFromPrevious(table, InRows(c)))
                      ELSE /\ ConsumptionFromPrevious(table, first) = {None}
                           /\ result[c] = Some(first.value
                                  + SumFromPrevious(table, InRows(c) \ {first}))

\* two readings of the month after an earlier one: the sum has two terms
C24_Witness ==
    /\ Returned(1)
    /\ DistinctDates(RowsOf(Coll(1)))
    /\ Cardinality(InRows(1)) = 2 /\ Cardinality(BeforeRows(1)) = 1
    /\ result[1] = Some(SumFromPrevious(RowsOf(Coll(1)), InRows(1)))
    /\ \A r \in InRows(1) : ConsumptionFromPrevious(RowsOf(Coll(1)), r) # {Some(0)}

\* C25: in every state reached by add_service, edit_service, delete_service,
\* add_measurement and delete_measurement requests each stored measurement belongs to a
\* stored service; and a POST /add_measurement whose service_id names no stored service
\* stores nothing: it is not answered with the redirect, and when the view is reached
\* its form does not validate.
C25_ReferentialIntegrity ==
    /\ [](\A m \in measurement : \E s \in service : s.id = m.service_id)
    /\ [][(/\ request'.endpoint = "add_measurement"
           /\ ~\E s \in service : s.id = request'.data[1])
             => /\ measurement' = measurement
                /\ service' = service
                /\ response'.status # 302
                /\ form' # None => ~form'[1].valid
                /\ form' = None => ~Protect(config, request'.csrf_token)]_vars

\* a measurement was submitted, with a good token, for a service that was deleted
\* while another service still has its measurement
C25_Witness ==
    /\ request # None
    /\ request.endpoint = "add_measurement" /\ request.csrf_token
    /\ request.data = Some(1)
    /\ service = {[id |-> 2, name |-> <<"G">>]}
    /\ form # None /\ ~form[1].valid /\ response.status = 200
    /\ Cardinality(measurement) = 1
    /\ \A m \in measurement : m.service_id = 2 /\ m.id = 1

\* C26: in every state reached by add_service and edit_service requests (and deletions)
\* the stored names are stripped, not empty, and no two stored services have the same
\* name; a request whose stripped name is the name of another stored service leaves the
\* table of services as it is.
C26_UniqueNames ==
    /\ [](\A s \in service : s.name = Strip(s.name) /\ s.name # <<>>)
    /\ [](\A s, q \in service : Strip(s.name) = Strip(q.name) => s = q)
    /\ [][(/\ request'.endpoint \in {"add_service", "edit_service"}
           /\ \E s \in service : s.id # request'.id /\ s.name = Strip(request'.data[1]))
             => service' = service]_vars

\* service 1 was to be renamed to the padded name of service 2: refused, both names
\* stay; the name with a blank inside is stored as it is
C26_Witness ==
    /\ request # None
    /\ request.endpoint = "edit_service" /\ request.id = 1
    /\ request.data = Some(<<" ", "W">>)
    /\ response.status = 500
    /\ service = {[id |-> 1, name |-> <<"W", " ", "G">>], [id |-> 2, name |-> <<"W">>]}

\* C27: a car starts with trip_distance 0, and every call move(distance) with
\* distance >= 0 keeps trip_distance + fuel as it was, so that the sum is always the
\* initial fuel; fuel and trip_distance are never negative, trip_distance never exceeds
\* the sum, and a move of a car with fuel 0 changes nothing of the car.
C27_FuelConserved ==
    /\ [](cars[1] # None
            => LET car == cars[1][1]
               IN  /\ car.fuel >= 0 /\ car.trip_distance >= 0
                   /\ \E new \in NewCars : new.fuel = car.trip_distance + car.fuel)
    /\ [][(cars[1] = None /\ cars'[1] # None)
             => cars'[1][1].trip_distance = 0 /\ distance' = None]_vars
    /\ [][(cars[1] # None /\ distance' # None)
             => LET before == cars[1][1]
                    after == cars'[1][1]
                IN  /\ distance'[1] >= 0
                    /\ after.trip_distance + after.fuel
                          = before.trip_distance + before.fuel
                    /\ after.trip_distance <= before.trip_distance + before.fuel
                    /\ before.fuel = 0 => cars' = cars]_vars

\* the car with the largest initial fuel has used all of it and was asked for more
C27_Witness ==
    /\ cars[1] = Some([fuel |-> 0, trip_distance |-> 7])
    /\ distance = Some(MaxDistance)

====
